---- MODULE Spec2Model ----
(***************************************************************************)
(* State-machine model of surfa_ingest.client.SurfaClient: the event       *)
(* buffer, the flush protocol with its retry loop, runtime-info injection, *)
(* execution-id continuity, session end and scope exit.                    *)
(*                                                                         *)
(* Callers are the elements of Threads.  Every caller runs the methods of  *)
(* one shared client; a method is cut into steps at the points where it    *)
(* blocks (requests.post, time.sleep) and between the test of line 396 and *)
(* the assignments that follow it, so that other callers can run there.    *)
(* Times are in milliseconds.  Text is modelled by its length.             *)
(***************************************************************************)
EXTENDS Integers, Sequences, FiniteSets, TLC

\* ------------------------------------------------------------------ bounds

\* top-level calls made on the client in one behaviour
MaxOps == 4

\* flush_at is drawn from 1..MaxFlushAt at construction
MaxFlushAt == 2

\* ------------------------------------------------------- program constants

max_retries == 3

\* base_delay = 0.5 s, in milliseconds
base_delay == 500

\* response.text[:500]
TextLimit == 500

retry_statuses == {429, 500, 502, 503, 504}

Threads == {1, 2}

\* ------------------------------------------------------------------ values

\* Python's None, for the string-valued fields
None == "None"

\* a dict is a function from a finite set of keys
EmptyDict == [k \in {} |-> None]

\* dict.update / {**a, **b}: the keys of e win
Update(d, e) ==
  [k \in (DOMAIN d) \cup (DOMAIN e) |-> IF k \in DOMAIN e THEN e[k] ELSE d[k]]

\* a typed Python value: its type and its text
Val(t, v) == [t |-> t, v |-> v]

Str(v) == Val("str", v)

\* bool(x) of a string-valued argument: None and "" are falsy
Truthy(s) == s # None /\ s # ""

Min(a, b) == IF a < b THEN a ELSE b

\* 2 ** n
RECURSIVE Pow2(_)
Pow2(n) == IF n = 0 THEN 1 ELSE 2 * Pow2(n - 1)

\* text[:500], on the length of the text
Truncate(len) == Min(len, TextLimit)

\* ------------------------------------------------------------------ events

\* what a caller may pass to track: dicts and one value that is no dict
EvTool == [isdict |-> TRUE,
           d |-> [k \in {"kind", "subtype", "ts"} |->
                    CASE k = "kind" -> Str("tool")
                      [] k = "subtype" -> Str("tool_call_started")
                      [] OTHER -> Str("2026-01-29T20:00:00Z")]]

EvCustomNoTs == [isdict |-> TRUE, d |-> [k \in {"kind"} |-> Str("custom")]]

EvNotDict == [isdict |-> FALSE, d |-> EmptyDict]

EvNoKind == [isdict |-> TRUE, d |-> [k \in {"subtype"} |-> Str("x")]]

EvKindInt == [isdict |-> TRUE, d |-> [k \in {"kind"} |-> Val("int", "7")]]

EvKindEmpty == [isdict |-> TRUE, d |-> [k \in {"kind"} |-> Str("")]]

EvTsInt == [isdict |-> TRUE,
            d |-> [k \in {"kind", "ts"} |->
                     IF k = "kind" THEN Str("tool") ELSE Val("int", "5")]]

\* ts present and a string, though an empty one
EvTsEmpty == [isdict |-> TRUE,
              d |-> [k \in {"kind", "ts"} |->
                       IF k = "kind" THEN Str("tool") ELSE Str("")]]

ValidInputs == {EvTool, EvCustomNoTs, EvTsEmpty}

InvalidInputs == {EvNotDict, EvNoKind, EvKindInt, EvKindEmpty, EvTsInt}

EventInputs == ValidInputs \cup InvalidInputs

\* events.validate_event: TRUE when it returns, FALSE when it raises ValueError
validate_event_kind_only(event) ==
  /\ event.isdict
  /\ "kind" \in DOMAIN event.d
  /\ event.d["kind"].t = "str"
  /\ event.d["kind"].v # ""

validate_event(event) ==
  /\ event.isdict
  /\ "kind" \in DOMAIN event.d
  /\ event.d["kind"].t = "str"
  /\ event.d["kind"].v # ""
  /\ ("ts" \in DOMAIN event.d => event.d["ts"].t = "str")

\* line 380: what validate_event returns when it does not raise
validate_event_return(event) == Val("bool", "True")

\* events.create_event with kind and subtype given: ts defaults to now_iso()
create_event_no_ts(kind, subtype) ==
  LET base == [k \in {"kind"} |-> Str(kind)]
  IN [isdict |-> TRUE,
      d |-> IF subtype # None
              THEN Update(base, [k \in {"subtype"} |-> Str(subtype)])
              ELSE base]

create_event(kind, subtype) ==
  LET base == [k \in {"ts", "kind"} |->
                 IF k = "ts" THEN Str("now") ELSE Str(kind)]
  IN [isdict |-> TRUE,
      d |-> IF subtype # None
              THEN Update(base, [k \in {"subtype"} |-> Str(subtype)])
              ELSE base]

\* events.session_ended()
create_session_ended == create_event("session", "session_ended")

\* a buffered event: the dict and its arrival number (0: built by flush)
Buffered(n, event) == [id |-> n, ev |-> event.d]

\* ----------------------------------------------------------------- runtime

NoRuntime == [set |-> FALSE, d |-> EmptyDict]

\* arguments of set_runtime
RtArgsA == [provider |-> "anthropic", model |-> "claude", mode |-> None,
            extra |-> EmptyDict]

RtArgsB == [provider |-> "openai", model |-> "gpt", mode |-> "messages",
            extra |-> [k \in {"region"} |-> Str("eu")]]

RuntimeArgs == {RtArgsA, RtArgsB}

\* an extra field named like a field of the runtime-info event
RtArgsKind == [provider |-> "openai", model |-> "gpt", mode |-> None,
               extra |-> [k \in {"kind"} |-> Str("custom")]]

\* mode given as the empty string
RtArgsEmptyMode == [provider |-> "anthropic", model |-> "claude", mode |-> "",
                    extra |-> EmptyDict]

RuntimeArgsAll == RuntimeArgs \cup {RtArgsKind, RtArgsEmptyMode}

\* the dict set_runtime builds (lines 123-135)
RuntimeDict(a) ==
  LET base == [k \in {"provider", "model"} |->
                 IF k = "provider" THEN Str(a.provider) ELSE Str(a.model)]
      withMode == IF Truthy(a.mode)
                    THEN Update(base, [k \in {"mode"} |-> Str(a.mode)])
                    ELSE base
  IN IF DOMAIN a.extra # {} THEN Update(withMode, a.extra) ELSE withMode

\* line 137: self._runtime = runtime, whatever the snapshot was before
NewSnapshotMerged(old, a) == Update(old, RuntimeDict(a))

NewSnapshot(old, a) == RuntimeDict(a)

\* bool(self._runtime): None and the empty dict are falsy
RuntimeTruthy(rt) == rt.set /\ DOMAIN rt.d # {}

\* line 345 and line 401: `self._runtime and not self._runtime_info_emitted`
InjectDue(rt, emitted) == RuntimeTruthy(rt) /\ ~emitted

\* lines 346-350: {"kind": "runtime", "subtype": "runtime_info", **self._runtime}
runtime_info_event(rt) ==
  [id |-> 0,
   ev |-> Update([k \in {"kind", "subtype"} |->
                    IF k = "kind" THEN Str("runtime") ELSE Str("runtime_info")],
                 rt.d)]

\* ------------------------------------------------------------ flush, pure

\* lines 342-351: the copy of the buffer, runtime-info inserted at index 0
BuildEventsAppended(buf, rt, emitted) ==
  IF InjectDue(rt, emitted) THEN buf \o <<runtime_info_event(rt)>> ELSE buf

BuildEvents(buf, rt, emitted) ==
  IF InjectDue(rt, emitted) THEN <<runtime_info_event(rt)>> \o buf ELSE buf

\* the live buffer after events_to_send was built: insert(0, ..) acts on a copy
LiveBufferAliased(buf, events) == events

LiveBufferAfterBuild(buf, events) == buf

\* lines 355-365
BuildPayloadRuntimeOnce(sid, events, eid, rt) ==
  [keys |-> {"session_id", "events"}
              \cup (IF eid # None THEN {"execution_id"} ELSE {})
              \cup (IF rt.set /\ events[1].id = 0 THEN {"runtime"} ELSE {}),
   session_id |-> sid,
   events |-> events,
   execution_id |-> eid,
   runtime |-> rt]

BuildPayload(sid, events, eid, rt) ==
  [keys |-> {"session_id", "events"}
              \cup (IF eid # None THEN {"execution_id"} ELSE {})
              \cup (IF rt.set THEN {"runtime"} ELSE {}),
   session_id |-> sid,
   events |-> events,
   execution_id |-> eid,
   runtime |-> rt]

NoPayload == BuildPayload(None, <<>>, None, NoRuntime)

\* exceptions raised by the client; status_code and response_text are -1
\* where the exception carries none (response_text is a length);
\* message_text is the number of characters of the message that were
\* supplied by the server
Error(type, status, text) ==
  [type |-> type, status_code |-> status, response_text |-> text,
   message_text |-> 0]

\* the error err, its message extended by len characters of server text
WithMessage(err, len) == [err EXCEPT !.message_text = len]

NoError == Error("None", -1, -1)

Returned == Error("return", -1, -1)

NoResult == Error("none", -1, -1)

\* __exit__ returned False (line 521)
ReturnedFalse == Error("return False", -1, -1)

\* lines 510-521: how __exit__ ends when its try block ended with err
\* (Returned, or the exception raised in it)
ExitResultPropagate(err) == IF err = Returned THEN ReturnedFalse ELSE err

ExitResult(err) == ReturnedFalse

FlushErrors == {"SurfaAuthError", "SurfaIngestError", "SurfaNetworkError"}

\* a JSON body: how response.json() and the `in` / [] of the code act on it
\*   invalid: json() raises ValueError      object: a dict
\*   scalar : null, a number, a boolean     array : a list (or a string)
\* items: the probed names it holds (keys of a dict, elements of a list)
Json(shape, items, eid, elen) ==
  [shape |-> shape, items |-> items, execution_id |-> eid, error_len |-> elen]

JInvalid == Json("invalid", {}, None, 0)

JEmptyObject == Json("object", {}, None, 0)

JScalar == Json("scalar", {}, None, 0)

\* lines 389-393: data = response.json(), {} on ValueError
ParseBody(body) == IF body.shape = "invalid" THEN JEmptyObject ELSE body

\* `name in data` raises TypeError on null, numbers and booleans
InRaises(data) == data.shape = "scalar"

\* data[name] raises TypeError on a list or a string
IndexRaises(data) == data.shape # "object"

\* lines 414-419 and 429-434: TRUE when the block lets a TypeError escape
ErrorBodyRaises(body) ==
  /\ body.shape # "invalid"
  /\ \/ InRaises(body)
     \/ ("error" \in body.items /\ IndexRaises(body))

\* a transport outcome: an exception of requests, or a response
Exc(name) == [exc |-> name, status_code |-> 0, body |-> JInvalid, text_len |-> 0]

Resp(status, body, len) ==
  [exc |-> "none", status_code |-> status, body |-> body, text_len |-> len]

NoResponse == Exc("unset")

Is2xx(status) == 200 <= status /\ status < 300

\* the branch of the loop body an outcome takes (lines 388-475)
ClassifyRetryAll(o) ==
  IF o.exc # "none" THEN "network_retry"
  ELSE IF Is2xx(o.status_code) THEN "success"
  ELSE "server"

Classify(o) ==
  IF o.exc \in {"Timeout", "ConnectionError"} THEN "network_retry"
  ELSE IF o.exc # "none" THEN "network_fatal"
  ELSE IF Is2xx(o.status_code) THEN "success"
  ELSE IF o.status_code \in {401, 403} THEN "auth"
  ELSE IF 400 <= o.status_code /\ o.status_code < 500
          /\ o.status_code \notin retry_statuses THEN "client"
  ELSE IF o.status_code \in retry_statuses THEN "retry"
  ELSE "server"

\* lines 448 and 465: attempt < max_retries - 1
RetryAllowedAlways(att) == TRUE

RetryAllowed(att) == att < max_retries - 1

\* line 374: after `continue` in iteration att, range(max_retries) has a
\* next value
LoopHasNext(att) == att + 1 < max_retries

\* lines 477-481, after the loop: raise last_error if there is one, else
\* SurfaNetworkError("Failed to flush events after retries")
AfterLoop(err) ==
  IF err # NoError THEN err ELSE Error("SurfaNetworkError", -1, -1)

\* lines 449 and 466: base_delay * (2 ** attempt)
RetryDelay(att) == base_delay * Pow2(att)

\* lines 416-417 and 431-432: the characters f"{error_msg} - {error_data['error']}"
\* adds to the message, for a body on which the block does not raise
ErrorFieldLen(body) ==
  IF body.shape = "object" /\ "error" \in body.items THEN body.error_len ELSE 0

\* the error an outcome is classified as (lines 422, 437, 442, 459, 463, 475)
ErrorOfUnclassified(o) == Error("SurfaNetworkError", -1, -1)

ErrorOf(o) ==
  LET c == Classify(o)
  IN CASE c \in {"network_retry", "network_fatal"} -> Error("SurfaNetworkError", -1, -1)
       [] c = "auth" ->
            WithMessage(Error("SurfaAuthError", -1, -1), ErrorFieldLen(o.body))
       [] c = "client" ->
            WithMessage(Error("SurfaIngestError", o.status_code,
                              Truncate(o.text_len)),
                        ErrorFieldLen(o.body))
       [] OTHER -> Error("SurfaIngestError", o.status_code, Truncate(o.text_len))

\* last_error after an attempt that may be retried (lines 442 and 463)
LastErrorKeepFirst(prev, new) == IF prev = NoError THEN new ELSE prev

LastError(prev, new) == new

\* line 396: "execution_id" in data and self.execution_id is None
StoreDueAlways(data, eid) == "execution_id" \in data.items

StoreDue(data, eid) == "execution_id" \in data.items /\ eid = None

\* line 406: self._buffer.clear()
BufferAfterSuccessKeepLast(buf) ==
  IF buf = <<>> THEN buf ELSE <<buf[Len(buf)]>>

BufferAfterSuccess(buf) == <<>>

\* line 334: `not self._buffer`
BufferEmptyNever(buf) == FALSE

BufferEmpty(buf) == buf = <<>>

\* line 183: len(self._buffer) >= self.flush_at
AutoFlushDueStrict(len, fa) == len > fa

AutoFlushDueNever(len, fa) == FALSE

AutoFlushDue(len, fa) == len >= fa

\* ------------------------------------------------------------------- state

VARIABLES
  \* fields of the client
  flush_at, session_id, execution_id, buffer, runtime,
  runtime_info_emitted, session_ended,
  \* per caller: where it is, and the locals of flush
  pc, ctx, payload, attempt, last_error, response, data,
  \* history, for stating the properties
  ops,        \* top-level calls made so far
  nextId,     \* arrival number of the next accepted event
  result,     \* per caller: how its last top-level call ended
  fres,       \* per caller: how its last flush ended
  pre,        \* per caller: the client fields when its flush (or its
              \* set_runtime) began
  waits,      \* per caller: the sleeps of its flush, in order
  outcomes,   \* per caller: the transport outcomes of its flush, in order
  rtAcked,    \* 2xx answers to batches holding runtime-info, since set_runtime
              \* (counted up to MaxOps)
  endsAppended, \* session-ended events appended by session_end so far
  acked,      \* arrival numbers of the events of the batches answered 2xx
  carries     \* per caller: the batch of its flush holds the runtime-info
              \* event of the runtime assignment in force

client == <<flush_at, session_id, execution_id, buffer, runtime,
            runtime_info_emitted, session_ended>>

locals == <<pc, ctx, payload, attempt, last_error, response, data>>

history == <<ops, nextId, result, fres, pre, waits, outcomes, rtAcked,
             endsAppended, acked, carries>>

vars == <<client, locals, history>>

SessionIds == {"s1", "s2"}

ExecIds == {"x1", "x2"}

\* the fields a flush must leave alone when it fails
Fields ==
  [buffer |-> buffer, execution_id |-> execution_id, runtime |-> runtime,
   runtime_info_emitted |-> runtime_info_emitted,
   session_ended |-> session_ended]

NoFields ==
  [buffer |-> <<>>, execution_id |-> None, runtime |-> NoRuntime,
   runtime_info_emitted |-> FALSE, session_ended |-> FALSE]

Range(s) == {s[i] : i \in 1..Len(s)}

\* the arrival numbers of the tracked events of a batch (the runtime-info
\* event, which flush prepends, has the number 0 and is left out)
EventIds(events) ==
  LET tracked(e) == e.id # 0
      kept == SelectSeq(events, tracked)
  IN [i \in 1..Len(kept) |-> kept[i].id]

\* the short form of an outcome kept in `outcomes`
Tag(o) == [exc |-> o.exc, status_code |-> o.status_code]

\* SurfaClient.__init__ (lines 76-97)
Init ==
  /\ flush_at \in 1..MaxFlushAt
  /\ session_id \in SessionIds
  /\ execution_id = None
  /\ buffer = <<>>
  /\ runtime = NoRuntime
  /\ runtime_info_emitted = FALSE
  /\ session_ended = FALSE
  /\ pc = [t \in Threads |-> "idle"]
  /\ ctx = [t \in Threads |-> "none"]
  /\ payload = [t \in Threads |-> NoPayload]
  /\ attempt = [t \in Threads |-> 0]
  /\ last_error = [t \in Threads |-> NoError]
  /\ response = [t \in Threads |-> NoResponse]
  /\ data = [t \in Threads |-> JEmptyObject]
  /\ ops = 0
  /\ nextId = 1
  /\ result = [t \in Threads |-> NoResult]
  /\ fres = [t \in Threads |-> "none"]
  /\ pre = [t \in Threads |-> NoFields]
  /\ waits = [t \in Threads |-> <<>>]
  /\ outcomes = [t \in Threads |-> <<>>]
  /\ rtAcked = 0
  /\ endsAppended = 0
  /\ acked = {}
  /\ carries = [t \in Threads |-> FALSE]

\* ------------------------------------------------------ calls and returns

\* lines 185, 211 and 222: track_raw, session_end and the alias have no
\* handler around the call they make, so its outcome is their own
PropagateSwallowed(err) == Returned

Propagate(err) == err

\* Where a caller goes when the innermost call of context c ends with err
\* (Returned, or the exception raised).  Contexts:
\*   flush        flush() called directly
\*   track        track() -> flush()
\*   session_end  session_end() -> track() -> flush()
\*   exit_end     __exit__() -> session_ended() -> session_end() -> track() ..
\*   exit_flush   __exit__() -> flush()
\* session_end sets _session_ended only when track returned (lines 211-212);
\* __exit__ catches every exception, skips the rest of its try block and
\* returns False (lines 510-521).
Unwind(c, err) ==
  LET raised == err # Returned
  IN CASE c = "session_end" ->
            [pc |-> "idle", ctx |-> "none", ended |-> ~raised,
             result |-> Propagate(err)]
       [] c = "exit_end" ->
            IF raised
              THEN [pc |-> "idle", ctx |-> "none", ended |-> FALSE,
                    result |-> ExitResult(err)]
              ELSE [pc |-> "flush", ctx |-> "exit_flush", ended |-> TRUE,
                    result |-> NoResult]
       [] c = "exit_flush" ->
            [pc |-> "idle", ctx |-> "none", ended |-> FALSE,
             result |-> ExitResult(err)]
       [] OTHER ->
            [pc |-> "idle", ctx |-> "none", ended |-> FALSE,
             result |-> Propagate(err)]

EndCall(t, c, err) ==
  LET u == Unwind(c, err)
  IN /\ pc' = [pc EXCEPT ![t] = u.pc]
     /\ ctx' = [ctx EXCEPT ![t] = u.ctx]
     /\ session_ended' = (session_ended \/ u.ended)
     /\ result' = [result EXCEPT ![t] = u.result]

\* a top-level call other than flush starts: the history of the caller's
\* previous call is dropped
StartCall(t) ==
  /\ pc[t] = "idle"
  /\ ops < MaxOps
  /\ ops' = ops + 1
  /\ fres' = [fres EXCEPT ![t] = "none"]
  /\ pre' = [pre EXCEPT ![t] = NoFields]
  /\ waits' = [waits EXCEPT ![t] = <<>>]
  /\ outcomes' = [outcomes EXCEPT ![t] = <<>>]
  /\ payload' = [payload EXCEPT ![t] = NoPayload]
  /\ attempt' = [attempt EXCEPT ![t] = 0]
  /\ last_error' = [last_error EXCEPT ![t] = NoError]
  /\ response' = [response EXCEPT ![t] = NoResponse]
  /\ data' = [data EXCEPT ![t] = JEmptyObject]
  /\ carries' = [carries EXCEPT ![t] = FALSE]

\* track_raw (lines 171-185) in context c: validate, append, test the
\* threshold; the call of flush is the caller's next step
TrackBody(t, c, event) ==
  IF ~validate_event(event)
    THEN /\ EndCall(t, c, Error("SurfaValidationError", -1, -1))
         /\ UNCHANGED <<buffer, nextId>>
    ELSE /\ buffer' = Append(buffer, Buffered(nextId, event))
         /\ nextId' = nextId + 1
         /\ IF AutoFlushDue(Len(buffer'), flush_at)
              THEN /\ pc' = [pc EXCEPT ![t] = "flush"]
                   /\ ctx' = [ctx EXCEPT ![t] = c]
                   /\ result' = [result EXCEPT ![t] = NoResult]
                   /\ UNCHANGED session_ended
              ELSE EndCall(t, c, Returned)

\* client.track(event)
Track(t, event) ==
  /\ StartCall(t)
  /\ TrackBody(t, "track", event)
  /\ UNCHANGED <<flush_at, session_id, execution_id, runtime,
                 runtime_info_emitted, rtAcked, endsAppended, acked>>

\* client.set_runtime(...) (lines 123-140)
SetRuntime(t, a) ==
  /\ pc[t] = "idle"
  /\ ops < MaxOps
  /\ ops' = ops + 1
  /\ fres' = [fres EXCEPT ![t] = "none"]
  /\ pre' = [pre EXCEPT ![t] = Fields]
  /\ waits' = [waits EXCEPT ![t] = <<>>]
  /\ outcomes' = [outcomes EXCEPT ![t] = <<>>]
  /\ payload' = [payload EXCEPT ![t] = NoPayload]
  /\ attempt' = [attempt EXCEPT ![t] = 0]
  /\ last_error' = [last_error EXCEPT ![t] = NoError]
  /\ response' = [response EXCEPT ![t] = NoResponse]
  /\ data' = [data EXCEPT ![t] = JEmptyObject]
  /\ runtime' = [set |-> TRUE, d |-> NewSnapshot(runtime.d, a)]
  /\ runtime_info_emitted' = FALSE
  /\ rtAcked' = 0
  /\ carries' = [u \in Threads |-> FALSE]
  /\ result' = [result EXCEPT ![t] = Returned]
  /\ UNCHANGED <<flush_at, session_id, execution_id, buffer, session_ended,
                 pc, ctx, nextId, endsAppended, acked>>

\* client.session_end() and its legacy alias session_ended() (lines 209-222)
SessionEnd(t) ==
  /\ StartCall(t)
  /\ IF session_ended
       THEN /\ result' = [result EXCEPT ![t] = Returned]
            /\ UNCHANGED <<buffer, nextId, pc, ctx, session_ended, endsAppended>>
       ELSE /\ TrackBody(t, "session_end", create_session_ended)
            /\ endsAppended' = endsAppended + 1
  /\ UNCHANGED <<flush_at, session_id, execution_id, runtime,
                 runtime_info_emitted, rtAcked, acked>>

\* client.__exit__(...) (lines 510-521): session_ended(), then flush()
Exit(t) ==
  /\ StartCall(t)
  /\ IF session_ended
       THEN /\ pc' = [pc EXCEPT ![t] = "flush"]
            /\ ctx' = [ctx EXCEPT ![t] = "exit_flush"]
            /\ result' = [result EXCEPT ![t] = NoResult]
            /\ UNCHANGED <<buffer, nextId, session_ended, endsAppended>>
       ELSE /\ TrackBody(t, "exit_end", create_session_ended)
            /\ endsAppended' = endsAppended + 1
  /\ UNCHANGED <<flush_at, session_id, execution_id, runtime,
                 runtime_info_emitted, rtAcked, acked>>

\* client.flush() called directly: the body runs in FlushBegin
CallFlush(t) ==
  /\ pc[t] = "idle"
  /\ ops < MaxOps
  /\ ops' = ops + 1
  /\ pc' = [pc EXCEPT ![t] = "flush"]
  /\ ctx' = [ctx EXCEPT ![t] = "flush"]
  /\ result' = [result EXCEPT ![t] = NoResult]
  /\ UNCHANGED <<client, payload, attempt, last_error, response, data,
                 nextId, fres, pre, waits, outcomes, rtAcked, endsAppended,
                 acked, carries>>

\* ------------------------------------------------------------------- flush

\* flush, lines 334-372: return None on an empty buffer, else build the
\* batch and the payload and enter the retry loop
FlushBegin(t) ==
  /\ pc[t] = "flush"
  /\ waits' = [waits EXCEPT ![t] = <<>>]
  /\ outcomes' = [outcomes EXCEPT ![t] = <<>>]
  /\ attempt' = [attempt EXCEPT ![t] = 0]
  /\ last_error' = [last_error EXCEPT ![t] = NoError]
  /\ response' = [response EXCEPT ![t] = NoResponse]
  /\ data' = [data EXCEPT ![t] = JEmptyObject]
  /\ IF BufferEmpty(buffer)
       THEN /\ EndCall(t, ctx[t], Returned)
            /\ fres' = [fres EXCEPT ![t] = "empty"]
            /\ pre' = [pre EXCEPT ![t] = NoFields]
            /\ payload' = [payload EXCEPT ![t] = NoPayload]
            /\ carries' = [carries EXCEPT ![t] = FALSE]
            /\ UNCHANGED buffer
       ELSE LET events == BuildEvents(buffer, runtime, runtime_info_emitted)
            IN /\ payload' = [payload EXCEPT ![t] =
                     BuildPayload(session_id, events, execution_id, runtime)]
               /\ buffer' = LiveBufferAfterBuild(buffer, events)
               /\ pc' = [pc EXCEPT ![t] = "post"]
               /\ fres' = [fres EXCEPT ![t] = "running"]
               /\ pre' = [pre EXCEPT ![t] = Fields]
               /\ carries' = [carries EXCEPT ![t] =
                     InjectDue(runtime, runtime_info_emitted)]
               /\ UNCHANGED <<ctx, session_ended, result>>
  /\ UNCHANGED <<flush_at, session_id, execution_id, runtime,
                 runtime_info_emitted, ops, nextId, rtAcked, endsAppended,
                 acked>>

\* the flush of caller t ends by raising err
FlushRaise(t, err) ==
  /\ EndCall(t, ctx[t], err)
  /\ fres' = [fres EXCEPT ![t] = err.type]

\* one attempt, lines 377-475: requests.post answers or raises o, the code
\* classifies it and returns to the loop head, sleeps, raises, or goes on
\* to the success path
Post(t, o) ==
  /\ pc[t] = "post"
  /\ response' = [response EXCEPT ![t] = o]
  /\ outcomes' = [outcomes EXCEPT ![t] = Append(outcomes[t], Tag(o))]
  /\ rtAcked' = IF /\ Classify(o) = "success"
                   /\ payload[t].events[1].id = 0
                  THEN Min(rtAcked + 1, MaxOps) ELSE rtAcked
  /\ acked' = IF Classify(o) = "success"
                 THEN LET ids == EventIds(payload[t].events)
                      IN acked \cup {ids[i] : i \in 1..Len(ids)}
                 ELSE acked
  /\ LET c == Classify(o)
     IN CASE c = "success" ->
               /\ data' = [data EXCEPT ![t] = ParseBody(o.body)]
               /\ UNCHANGED last_error
               /\ IF InRaises(ParseBody(o.body))
                    THEN FlushRaise(t, Error("TypeError", -1, -1))
                    ELSE /\ pc' = [pc EXCEPT ![t] =
                                IF StoreDue(ParseBody(o.body), execution_id)
                                  THEN "assign" ELSE "mark"]
                         /\ UNCHANGED <<ctx, session_ended, result, fres>>
          [] c \in {"auth", "client"} ->
               /\ UNCHANGED <<data, last_error>>
               /\ IF ErrorBodyRaises(o.body)
                    THEN FlushRaise(t, Error("TypeError", -1, -1))
                    ELSE FlushRaise(t, ErrorOf(o))
          [] c \in {"retry", "network_retry"} ->
               /\ UNCHANGED data
               /\ last_error' = [last_error EXCEPT ![t] =
                                   LastError(last_error[t], ErrorOf(o))]
               /\ IF RetryAllowed(attempt[t])
                    THEN /\ pc' = [pc EXCEPT ![t] = "sleep"]
                         /\ UNCHANGED <<ctx, session_ended, result, fres>>
                    ELSE FlushRaise(t, last_error'[t])
          [] OTHER ->
               /\ UNCHANGED <<data, last_error>>
               /\ FlushRaise(t, ErrorOf(o))
  /\ UNCHANGED <<flush_at, session_id, execution_id, buffer, runtime,
                 runtime_info_emitted, payload, attempt, ops, nextId, pre,
                 waits, endsAppended, carries>>

\* lines 374-385: every iteration posts the payload built before the loop
\* (old), not one built again from the client's fields (fresh)
PayloadRebuilt(old, fresh) == fresh

PayloadOnRetry(old, fresh) == old

\* time.sleep(delay) returns and `continue` goes to the loop head (lines
\* 449-452 and 466-469): the next iteration, or the statements after the
\* loop when range(max_retries) is used up
Sleep(t) ==
  /\ pc[t] = "sleep"
  /\ payload' = [payload EXCEPT ![t] =
       PayloadOnRetry(payload[t],
         BuildPayload(session_id,
                      BuildEvents(buffer, runtime, runtime_info_emitted),
                      execution_id, runtime))]
  /\ waits' = [waits EXCEPT ![t] = Append(waits[t], RetryDelay(attempt[t]))]
  /\ IF LoopHasNext(attempt[t])
       THEN /\ attempt' = [attempt EXCEPT ![t] = attempt[t] + 1]
            /\ pc' = [pc EXCEPT ![t] = "post"]
            /\ UNCHANGED <<ctx, session_ended, result, fres>>
       ELSE /\ EndCall(t, ctx[t], AfterLoop(last_error[t]))
            /\ fres' = [fres EXCEPT ![t] = "after_loop"]
            /\ UNCHANGED attempt
  /\ UNCHANGED <<flush_at, session_id, execution_id, buffer, runtime,
                 runtime_info_emitted, last_error, response, data, ops,
                 nextId, pre, outcomes, rtAcked, endsAppended, acked,
                 carries>>

\* the rest of the success path, lines 397-409: store the execution id
\* (when line 396 said so), mark runtime-info emitted, clear the buffer,
\* return data
Succeed(t) ==
  /\ pc[t] \in {"assign", "mark"}
  /\ IF pc[t] = "assign" /\ IndexRaises(data[t])
       THEN /\ FlushRaise(t, Error("TypeError", -1, -1))
            /\ UNCHANGED <<execution_id, runtime_info_emitted, buffer>>
       ELSE /\ execution_id' = IF pc[t] = "assign"
                                 THEN data[t].execution_id ELSE execution_id
            /\ runtime_info_emitted' =
                 IF InjectDue(runtime, runtime_info_emitted)
                   THEN TRUE ELSE runtime_info_emitted
            /\ buffer' = BufferAfterSuccess(buffer)
            /\ EndCall(t, ctx[t], Returned)
            /\ fres' = [fres EXCEPT ![t] = "ok"]
  /\ UNCHANGED <<flush_at, session_id, runtime, payload, attempt, last_error,
                 response, data, ops, nextId, pre, waits, outcomes, rtAcked,
                 endsAppended, acked, carries>>

\* ----------------------------------------------------- transport outcomes

JExec(x) == Json("object", {"execution_id"}, x, 0)

JErrorObject(len) == Json("object", {"error"}, None, len)

\* a list (or a string) that holds the probed names
JArray == Json("array", {"execution_id", "error"}, None, 0)

NetworkOutcomes ==
  {Exc("Timeout"), Exc("ConnectionError"), Exc("RequestException")}

SuccessOutcomes ==
  {Resp(200, JExec(x), 40) : x \in ExecIds}
    \cup {Resp(200, JEmptyObject, 2), Resp(204, JInvalid, 0),
          Resp(200, JScalar, 4), Resp(200, JArray, 30)}

AuthOutcomes ==
  {Resp(401, JErrorObject(20), 40), Resp(403, JInvalid, 0),
   Resp(401, JScalar, 4)}

ClientOutcomes ==
  {Resp(400, JErrorObject(600), 650), Resp(404, JInvalid, 501),
   Resp(404, JScalar, 4)}

RetryOutcomes ==
  {Resp(s, JInvalid, 0) : s \in retry_statuses}
    \cup {Resp(503, JErrorObject(600), 650)}

ServerOutcomes ==
  {Resp(501, JInvalid, 0), Resp(302, JInvalid, 10), Resp(100, JScalar, 4),
   Resp(505, JErrorObject(600), 650)}

AllOutcomes ==
  NetworkOutcomes \cup SuccessOutcomes \cup AuthOutcomes \cup ClientOutcomes
    \cup RetryOutcomes \cup ServerOutcomes

\* the outcomes drawn where the whole client is exercised
CoreOutcomes ==
  {Exc("Timeout"), Exc("RequestException"),
   Resp(200, JExec("x1"), 40), Resp(200, JExec("x2"), 40),
   Resp(204, JInvalid, 0), Resp(200, JScalar, 4),
   Resp(401, JErrorObject(20), 40), Resp(404, JInvalid, 501),
   Resp(503, JInvalid, 0)}

\* the events drawn where the whole client is exercised
CoreInputs == {EvTool} \cup InvalidInputs

\* ----------------------------------------------------------- specifications

\* the steps of caller t inside flush, the transport drawing from O
FlushStep(t, O) ==
  \/ FlushBegin(t)
  \/ \E o \in O : Post(t, o)
  \/ Sleep(t)
  \/ Succeed(t)

\* one caller, every operation
Next ==
  \/ \E event \in CoreInputs : Track(1, event)
  \/ \E a \in RuntimeArgs : SetRuntime(1, a)
  \/ SessionEnd(1)
  \/ Exit(1)
  \/ CallFlush(1)
  \/ FlushStep(1, CoreOutcomes)

Spec == Init /\ [][Next]_vars

\* one caller that tracks and flushes, every transport outcome
NextRetry ==
  \/ Track(1, EvTool)
  \/ CallFlush(1)
  \/ FlushStep(1, AllOutcomes)

SpecRetry == Init /\ [][NextRetry]_vars

\* the outcomes drawn where every kind of event is tracked
TrackOutcomes == {Resp(200, JEmptyObject, 2), Resp(503, JInvalid, 0)}

\* one caller that tracks every kind of event, valid or not, and flushes
NextTrack ==
  \/ \E event \in EventInputs : Track(1, event)
  \/ CallFlush(1)
  \/ FlushStep(1, TrackOutcomes)

SpecTrack == Init /\ [][NextTrack]_vars

\* kinds given to create_event: non-empty strings
Kinds == {"tool", "session", " "}

\* one caller that tracks events built by create_event from kind alone
NextFactory ==
  \/ \E kind \in Kinds : Track(1, create_event(kind, None))
  \/ CallFlush(1)
  \/ FlushStep(1, TrackOutcomes)

SpecFactory == Init /\ [][NextFactory]_vars

\* the outcomes drawn where every kind of runtime snapshot is set
RuntimeOutcomes ==
  {Resp(200, JExec("x1"), 40), Resp(401, JInvalid, 0), Resp(503, JInvalid, 0)}

\* one caller that sets runtime snapshots of every kind, tracks and flushes
NextRuntime ==
  \/ \E a \in RuntimeArgsAll : SetRuntime(1, a)
  \/ Track(1, EvTool)
  \/ CallFlush(1)
  \/ FlushStep(1, RuntimeOutcomes)

SpecRuntime == Init /\ [][NextRuntime]_vars

\* the outcomes drawn where two callers share the client
ConcOutcomes ==
  {Resp(200, JExec("x1"), 40), Resp(200, JExec("x2"), 40),
   Resp(401, JErrorObject(20), 40), Resp(503, JInvalid, 0)}

\* two callers sharing the client: track, set_runtime and flush interleave
\* at the steps of flush
NextConc ==
  \E t \in Threads :
    \/ Track(t, EvTool)
    \/ \E a \in RuntimeArgs : SetRuntime(t, a)
    \/ CallFlush(t)
    \/ FlushStep(t, ConcOutcomes)

\* the client of the two callers: one session id, the largest threshold
InitConc == Init /\ flush_at = MaxFlushAt /\ session_id = "s1"

SpecConc == InitConc /\ [][NextConc]_vars

\* the last flush of caller t raised and t has made no call since
FlushFailed(t) ==
  pc[t] = "idle" /\ fres[t] \notin {"none", "empty", "running", "ok"}

\* client.flush() called again after a flush that raised (the events are
\* still in the buffer): the body runs in FlushBegin
FlushAgain(t) ==
  /\ FlushFailed(t)
  /\ pc' = [pc EXCEPT ![t] = "flush"]
  /\ ctx' = [ctx EXCEPT ![t] = "flush"]
  /\ result' = [result EXCEPT ![t] = NoResult]
  /\ UNCHANGED <<client, payload, attempt, last_error, response, data, ops,
                 nextId, fres, pre, waits, outcomes, rtAcked, endsAppended,
                 acked, carries>>

\* the outcomes drawn where a failed flush is always followed by another
LiveOutcomes ==
  {Resp(200, JExec("x1"), 40), Resp(200, JScalar, 4),
   Resp(401, JErrorObject(20), 40), Resp(503, JInvalid, 0), Exc("Timeout")}

\* the answers with a 2xx status
Live2xx == {o \in LiveOutcomes : Classify(o) = "success"}

\* one caller that tracks, sets the runtime and flushes, and whose next call
\* after a flush that raised is flush
NextLive ==
  \/ ~FlushFailed(1) /\ Track(1, EvTool)
  \/ ~FlushFailed(1) /\ \E a \in RuntimeArgs : SetRuntime(1, a)
  \/ ~FlushFailed(1) /\ CallFlush(1)
  \/ FlushAgain(1)
  \/ FlushStep(1, LiveOutcomes)

\* flush is called again after every flush that raised; the steps of flush
\* are taken; requests.post answers; and it answers 2xx again and again
\* while posts go on
SpecLive ==
  /\ Init /\ [][NextLive]_vars
  /\ WF_vars(FlushAgain(1))
  /\ WF_vars(FlushStep(1, LiveOutcomes))
  /\ SF_vars(\E o \in Live2xx : Post(1, o))

\* ------------------------------------------------------------ properties

\* caller t is inside the retry loop or the success path of flush
InFlush(t) == pc[t] \in {"post", "sleep", "assign", "mark"}

\* the step is the successful end of a flush of caller t
FlushSucceeds(t) == pc[t] \in {"assign", "mark"} /\ fres'[t] = "ok"

\* the buffer without the events of batch, order kept
Without(buf, batch) ==
  LET kept(b) == b \notin Range(batch) IN SelectSeq(buf, kept)

\* C1: when a flush succeeds, the buffer afterwards holds none of the events
\* of the transmitted batch and still holds, in arrival order, every other
\* event: those appended (by another caller) after the flush took its
\* snapshot, during the transport call or a retry sleep.
C1_SuccessfulFlushKeepsLaterEvents ==
  [][\A t \in Threads :
       FlushSucceeds(t) => buffer' = Without(buffer, payload[t].events)]_vars

\* C2: whenever flush raises AuthError, IngestError or NetworkError, the
\* buffer, execution_id, the runtime snapshot, runtime_info_emitted and
\* session_ended are what they were when the flush began; and a flush that
\* follows the failed one with no operation in between sends the same
\* request (the same events in the same order).
C2_FailedFlushLeavesState ==
  /\ [](\A t \in Threads :
          (fres[t] \in FlushErrors /\ ~InFlush(t)) => Fields = pre[t])
  /\ [][\A t \in Threads :
          (fres[t] \in FlushErrors /\ pc[t] = "flush" /\ pc'[t] = "post")
            => payload'[t] = payload[t]]_vars

\* C2 witness: a flush with a pending runtime-info event has raised
\* IngestError after three attempts, the buffer is not empty
C2_Witness ==
  /\ pc[1] = "idle"
  /\ fres[1] = "SurfaIngestError"
  /\ Len(outcomes[1]) = 3
  /\ buffer # <<>>
  /\ runtime.set /\ ~runtime_info_emitted
  /\ payload[1].events[1].id = 0

\* C3: execution_id changes at most once: from absent to the value of the
\* first successful response that holds one; afterwards no successful
\* response changes it, whatever execution id it carries.
C3_ExecutionIdSetOnce ==
  [][/\ execution_id # None => execution_id' = execution_id
     /\ \A t \in Threads :
          (FlushSucceeds(t) /\ execution_id = None
             /\ "execution_id" \in data[t].items)
            => execution_id' = data[t].execution_id
     /\ execution_id' # execution_id
          => \E t \in Threads :
               FlushSucceeds(t) /\ execution_id' = data[t].execution_id]_vars

\* C3 witness: x1 is stored and a later flush has succeeded on a response
\* that carries x2
C3_Witness ==
  /\ execution_id = "x1"
  /\ fres[1] = "ok"
  /\ pc[1] = "idle"
  /\ response[1] = Resp(200, JExec("x2"), 40)

\* the batch of caller t holds the runtime-info event built by flush
HasRuntimeInfo(t) ==
  \E i \in 1..Len(payload[t].events) : payload[t].events[i].id = 0

\* C4: between one set_runtime and the next at most one batch answered 2xx
\* holds a runtime-info event: a batch holds it, once and at position 1,
\* exactly while no batch holding it has been answered 2xx since set_runtime
\* (failed flushes do not consume it), and later batches hold none.
C4_RuntimeInfoOncePerAssignment ==
  /\ rtAcked <= 1
  /\ \A t \in Threads :
       pc[t] = "post" =>
         /\ HasRuntimeInfo(t) <=> (runtime.set /\ rtAcked = 0)
         /\ \A i \in 2..Len(payload[t].events) : payload[t].events[i].id # 0

\* C5: a track of a valid event calls flush exactly when the buffer length
\* after the append has reached flush_at; a track that leaves the buffer
\* shorter returns without any transport call; with flush_at = 2 the first
\* track leaves 1 event and the second, its flush succeeding, leaves 0.
\* (ctx = exit_flush marks the flush that __exit__ itself calls after its
\* session_end has returned; ops calls with nextId - 1 accepted events and
\* the session not ended are plain tracks.)
C5_AutoFlushAtThreshold ==
  /\ [][Len(buffer') = Len(buffer) + 1 =>
          /\ (pc'[1] = "flush" /\ ctx'[1] # "exit_flush")
               <=> Len(buffer') >= flush_at
          /\ Len(buffer') < flush_at =>
               /\ pc'[1] = "idle" \/ ctx'[1] = "exit_flush"
               /\ outcomes'[1] = <<>> /\ fres'[1] = "none"]_vars
  /\ []((flush_at = 2 /\ ops = 1 /\ nextId = 2 /\ pc[1] = "idle"
           /\ ~session_ended)
          => (Len(buffer) = 1 /\ outcomes[1] = <<>>))
  /\ []((flush_at = 2 /\ ops = 2 /\ nextId = 3 /\ pc[1] = "idle"
           /\ ~session_ended /\ fres[1] = "ok") => Len(buffer) = 0)

\* C5 witness: flush_at = 2, two tracks made, the second has flushed
C5_Witness ==
  /\ flush_at = 2 /\ ops = 2 /\ nextId = 3
  /\ pc[1] = "idle" /\ fres[1] = "ok" /\ result[1] = Returned
  /\ ~session_ended
  /\ buffer = <<>>

\* the last transport outcome of the flush of caller t
LastOutcome(t) == outcomes[t][Len(outcomes[t])]

\* an outcome after which the retry policy allows another attempt
RetryableTag(g) ==
  \/ g.exc \in {"Timeout", "ConnectionError"}
  \/ g.exc = "none" /\ g.status_code \in {429, 500, 502, 503, 504}

StatusTag(status) == [exc |-> "none", status_code |-> status]

ExcTag(name) == [exc |-> name, status_code |-> 0]

\* C6: one flush makes at most 3 transport attempts and then returns or
\* raises; an attempt is followed by another only if it ended in a status
\* of {429, 500, 502, 503, 504} or in a timeout / connection failure and
\* fewer than 3 attempts were made; a 2xx on attempt k makes the flush
\* return successfully after exactly k attempts.
C6_AtMostThreeAttempts ==
  \A t \in Threads :
    /\ Len(outcomes[t]) <= 3
    /\ \A i \in 1..(Len(outcomes[t]) - 1) : RetryableTag(outcomes[t][i])
    /\ (InFlush(t) /\ pc[t] \in {"post", "sleep"} /\ outcomes[t] # <<>>)
         => (RetryableTag(LastOutcome(t)) /\ Len(outcomes[t]) < 3)
    /\ Len(outcomes[t]) = 3 => pc[t] \notin {"post", "sleep"}
    /\ (outcomes[t] # <<>> /\ LastOutcome(t).exc = "none"
          /\ Is2xx(LastOutcome(t).status_code))
         => \/ pc[t] \in {"assign", "mark"}
            \/ fres[t] = "ok" /\ attempt[t] = Len(outcomes[t]) - 1

\* the waits of a flush that has made n attempts and is not sleeping
ExpectedWaits(n) == [i \in 1..n |-> 500 * Pow2(i - 1)]

\* C7: the wait after attempt a (from 0) is 0.5 s * 2^a: 0.5 s, then 1.0 s;
\* a flush that makes n attempts makes n-1 waits and none after its last
\* attempt, whether the retried outcome was a status or a network failure;
\* the responses [503, 503, 200] give two waits (0.5 s, 1.0 s) and a
\* successful return.
C7_BackoffDelays ==
  \A t \in Threads :
    /\ outcomes[t] # <<>> =>
         waits[t] = ExpectedWaits(IF pc[t] = "post" THEN Len(outcomes[t])
                                  ELSE Len(outcomes[t]) - 1)
    /\ (outcomes[t] = <<StatusTag(503), StatusTag(503), StatusTag(200)>>
          /\ ~InFlush(t))
         => (waits[t] = <<500, 1000>> /\ fres[t] = "ok")

\* C8: a 401 or 403 on any attempt makes the flush raise AuthError at once:
\* no wait and no attempt follow, the buffer and the session state are
\* intact; a first response of 401 gives no wait and one attempt.
C8_AuthErrorImmediate ==
  \A t \in Threads :
    (outcomes[t] # <<>> /\ LastOutcome(t).exc = "none"
       /\ LastOutcome(t).status_code \in {401, 403})
      => /\ ~InFlush(t)
         /\ fres[t] = "SurfaAuthError"
         /\ Len(waits[t]) = Len(outcomes[t]) - 1
         /\ Fields = pre[t]

\* C9: a 4xx other than 401, 403 and 429 on any attempt makes the flush
\* raise IngestError at once, with no wait and no further attempt; the
\* error carries that status code and at most 500 characters of response
\* text; the buffer is intact.
C9_ClientErrorImmediate ==
  \A t \in Threads :
    (outcomes[t] # <<>> /\ LastOutcome(t).exc = "none"
       /\ LastOutcome(t).status_code \in (400..499) \ {401, 403, 429}
       /\ pc[t] = "idle")
      => /\ fres[t] = "SurfaIngestError"
         /\ result[t].type = "SurfaIngestError"
         /\ result[t].status_code = LastOutcome(t).status_code
         /\ result[t].response_text \in 0..500
         /\ Len(waits[t]) = Len(outcomes[t]) - 1
         /\ buffer = pre[t].buffer

\* C10: when all 3 attempts end in retryable outcomes, the error raised is
\* the one classified from the third: IngestError with the third attempt's
\* status code if that was a retryable status, NetworkError if it was a
\* timeout or a connection failure, whatever the first two were.
C10_LastErrorRaised ==
  \A t \in Threads :
    (Len(outcomes[t]) = 3 /\ RetryableTag(outcomes[t][3]) /\ pc[t] = "idle")
      => /\ fres[t] = result[t].type
         /\ outcomes[t][3].exc = "none" =>
              /\ result[t].type = "SurfaIngestError"
              /\ result[t].status_code = outcomes[t][3].status_code
         /\ outcomes[t][3].exc # "none" =>
              result[t].type = "SurfaNetworkError"

\* C10 witness: [timeout, timeout, 503] has raised IngestError with 503
C10_Witness ==
  /\ pc[1] = "idle"
  /\ outcomes[1] = <<ExcTag("Timeout"), ExcTag("Timeout"), StatusTag(503)>>
  /\ result[1] = Error("SurfaIngestError", 503, 0)

\* C11: flush called with an empty buffer makes no transport call, returns
\* the empty result (None) and leaves execution_id, the runtime snapshot,
\* runtime_info_emitted, session_ended and the buffer unchanged, also when a
\* runtime snapshot is set and not yet emitted.
C11_EmptyFlushNoOp ==
  [][(pc[1] = "flush" /\ buffer = <<>>) =>
       /\ fres'[1] = "empty"
       /\ pc'[1] = "idle"
       /\ result'[1] \in {Returned, ReturnedFalse}
       /\ outcomes'[1] = <<>> /\ waits'[1] = <<>>
       /\ payload'[1] = NoPayload
       /\ Fields' = Fields]_vars

\* C11 witness: a flush has returned on an empty buffer while a runtime
\* snapshot was set and not yet emitted
C11_Witness ==
  /\ pc[1] = "idle" /\ fres[1] = "empty" /\ result[1] = Returned
  /\ buffer = <<>>
  /\ runtime.set /\ ~runtime_info_emitted

\* the events the validation must reject: not a mapping, no kind, a kind
\* that is not a string or is the empty string, a ts that is not a string
Malformed(event) ==
  \/ ~event.isdict
  \/ "kind" \notin DOMAIN event.d
  \/ event.d["kind"].t # "str"
  \/ event.d["kind"].v = ""
  \/ ("ts" \in DOMAIN event.d /\ event.d["ts"].t # "str")

\* C12: track of an event that is not a mapping, lacks kind, has a kind that
\* is not a string or is empty, or has a ts that is not a string raises
\* ValidationError, leaves the buffer as it was and triggers no flush; every
\* other event is accepted and appended at the end of the buffer.
C12_InvalidEventRejected ==
  [][\A event \in EventInputs :
       Track(1, event) =>
         IF Malformed(event)
           THEN /\ result'[1] = Error("SurfaValidationError", -1, -1)
                /\ buffer' = buffer
                /\ pc'[1] = "idle"
                /\ fres'[1] = "none" /\ outcomes'[1] = <<>>
           ELSE /\ result'[1].type # "SurfaValidationError"
                /\ Len(buffer') = Len(buffer) + 1
                /\ SubSeq(buffer', 1, Len(buffer)) = buffer
                /\ buffer'[Len(buffer')].ev = event.d]_vars

\* C12 witness: a track has raised ValidationError on a buffer that one more
\* event would have filled to the threshold
C12_Witness ==
  /\ pc[1] = "idle"
  /\ result[1] = Error("SurfaValidationError", -1, -1)
  /\ buffer # <<>>
  /\ Len(buffer) = flush_at - 1

\* C13: marking the session ended is idempotent: over any sequence of
\* operations at most one session-ended event is ever appended by
\* session_end, and a session_end call after the first appends nothing and
\* triggers no flush.
C13_SessionEndIdempotent ==
  [][/\ endsAppended' <= 1
     /\ (SessionEnd(1) /\ endsAppended >= 1) =>
          (buffer' = buffer /\ pc'[1] = "idle")]_vars

\* C14: __exit__ never raises, whatever the transport outcomes of the
\* flushes it triggers (auth failure, client error, exhausted retries,
\* network failure), and always returns False: every way the call ends is a
\* return of False.
C14_ExitNeverRaises ==
  [][(ctx[1] \in {"exit_end", "exit_flush"} /\ pc'[1] = "idle")
       => result'[1] = ReturnedFalse]_vars

\* C14 witness: __exit__ has returned False after its flush raised AuthError
C14_Witness ==
  /\ pc[1] = "idle"
  /\ result[1] = ReturnedFalse
  /\ fres[1] = "SurfaAuthError"
  /\ buffer # <<>>

\* the names a set_runtime call may put into the snapshot
CallFields(a) == {"provider", "model", "mode"} \cup DOMAIN a.extra

C16_Any2xxBodySucceeds ==
  \A t \in Threads :
    (pc[t] = "idle" /\ outcomes[t] # <<>> /\ LastOutcome(t).exc = "none"
       /\ Is2xx(LastOutcome(t).status_code))
      => /\ fres[t] = "ok"
         /\ result[t] = Returned
         /\ buffer = <<>>
         /\ response[t].body.shape = "invalid" =>
              (data[t] = JEmptyObject /\ execution_id = pre[t].execution_id)

\* C17: a transport exception that is neither a timeout nor a connection
\* failure, on any attempt, ends the flush at once with NetworkError: no
\* wait and no attempt follow it, and the buffer and the session state are
\* intact.
C17_OtherTransportErrorImmediate ==
  \A t \in Threads :
    (outcomes[t] # <<>>
       /\ LastOutcome(t).exc \notin {"none", "Timeout", "ConnectionError"})
      => /\ ~InFlush(t)
         /\ fres[t] = "SurfaNetworkError"
         /\ Len(waits[t]) = Len(outcomes[t]) - 1
         /\ Fields = pre[t]

\* C17 witness: the second attempt of a flush raised such an exception
\* after a 503, and the flush has raised NetworkError after one wait
C17_Witness ==
  /\ pc[1] = "idle"
  /\ outcomes[1] = <<StatusTag(503), ExcTag("RequestException")>>
  /\ waits[1] = <<500>>
  /\ result[1] = Error("SurfaNetworkError", -1, -1)
  /\ buffer # <<>>

\* C18: every request body holds the session_id generated at construction,
\* the same in every request, and the event list; it holds execution_id
\* exactly when one is stored as the flush starts, with the stored value;
\* it holds the runtime snapshot exactly when one is set, on every flush
\* after set_runtime and not only on the one that carries runtime-info.
C18_RequestBodyFields ==
  [][/\ session_id' = session_id
     /\ pc'[1] \in {"post", "sleep"} =>
          /\ {"session_id", "events"} \subseteq payload'[1].keys
          /\ payload'[1].session_id = session_id
          /\ payload'[1].events # <<>>
          /\ "execution_id" \in payload'[1].keys
               <=> pre'[1].execution_id # None
          /\ payload'[1].execution_id = pre'[1].execution_id
          /\ "runtime" \in payload'[1].keys <=> pre'[1].runtime.set
          /\ "runtime" \in payload'[1].keys =>
               payload'[1].runtime = pre'[1].runtime]_vars

\* C18 witness: a request is about to be sent whose body holds the stored
\* execution id and the runtime snapshot, and whose batch holds no
\* runtime-info event because it was emitted by an earlier flush
C18_Witness ==
  /\ pc[1] = "post"
  /\ execution_id = "x1"
  /\ runtime.set /\ runtime_info_emitted
  /\ payload[1].keys = {"session_id", "events", "execution_id", "runtime"}
  /\ payload[1].execution_id = "x1"
  /\ payload[1].runtime = runtime
  /\ ~HasRuntimeInfo(1)

\* C19: the event list of every transmitted batch is the buffer's events at
\* flush start in their arrival order, preceded by one runtime-info event
\* exactly when a runtime snapshot is set and not yet marked emitted; a
\* runtime-info event is never at a position other than the first, and the
\* batch is as long as the buffer, plus 1 when the event is there.
C19_BatchOrder ==
  [][pc'[1] \in {"post", "sleep"} =>
       LET ev == payload'[1].events
           buf == pre'[1].buffer
           due == pre'[1].runtime.set /\ ~pre'[1].runtime_info_emitted
       IN /\ \A i, j \in 1..Len(buf) : i < j => buf[i].id < buf[j].id
          /\ \A i \in 1..Len(buf) : buf[i].id > 0
          /\ due => /\ ev[1].id = 0
                    /\ Tail(ev) = buf
                    /\ Len(ev) = Len(buf) + 1
          /\ ~due => ev = buf
          /\ \A i \in 2..Len(ev) : ev[i].id # 0]_vars

\* C19 witness: a batch of a runtime-info event followed by two tracked
\* events in arrival order is about to be sent
C19_Witness ==
  /\ pc[1] = "post"
  /\ Len(payload[1].events) = 3
  /\ payload[1].events[1].id = 0
  /\ payload[1].events[2].id = 1
  /\ payload[1].events[3].id = 2
  /\ Len(buffer) = 2

\* C20: whatever provider, model, mode and extra fields were given to
\* set_runtime, the event injected by flush has kind = runtime and
\* subtype = runtime_info and carries every field of the runtime snapshot at
\* its top level.
C20_RuntimeInfoShape ==
  \A t \in Threads :
    (pc[t] \in {"post", "sleep"} /\ payload[t].events[1].id = 0)
      => LET ev == payload[t].events[1].ev
             snapshot == pre[t].runtime.d
         IN /\ ev["kind"] = Str("runtime")
            /\ ev["subtype"] = Str("runtime_info")
            /\ \A k \in DOMAIN snapshot :
                 k \in DOMAIN ev /\ ev[k] = snapshot[k]

\* C21: the server's text in an error raised from flush is bounded: the
\* response body and the `error` field of an error response are each cut to
\* at most 500 characters wherever they appear in the error, in its message
\* and in its response_text, for every response length.
C21_ErrorTextBounded ==
  \A t \in Threads :
    (pc[t] = "idle" /\ result[t].type \in FlushErrors)
      => /\ result[t].response_text <= 500
         /\ result[t].message_text <= 500

\* C22 as stated: for every non-empty string kind, the event built by the
\* factory from kind alone has exactly the fields kind (the given value) and
\* ts (a string), passes validation, is what validation returns, and is
\* accepted by track unchanged.
C22_ValidationReturnsEvent ==
  [][\A kind \in Kinds :
       Track(1, create_event(kind, None)) =>
         LET event == create_event(kind, None)
         IN /\ DOMAIN event.d = {"kind", "ts"}
            /\ event.d["kind"] = Str(kind)
            /\ event.d["ts"].t = "str"
            /\ validate_event(event)
            /\ validate_event_return(event) = event.d
            /\ buffer' = Append(buffer, Buffered(nextId, event))]_vars

\* C22: for every non-empty string kind, the event built by the factory
\* from kind alone has exactly the fields kind (the given value) and ts (a
\* string) and passes validation; validation returns True and leaves the
\* event as it is, and track appends the event unchanged.
C22_FactoryEventAccepted ==
  [][\A kind \in Kinds :
       Track(1, create_event(kind, None)) =>
         LET event == create_event(kind, None)
         IN /\ DOMAIN event.d = {"kind", "ts"}
            /\ event.d["kind"] = Str(kind)
            /\ event.d["ts"].t = "str"
            /\ validate_event(event)
            /\ validate_event_return(event) = Val("bool", "True")
            /\ result'[1].type # "SurfaValidationError"
            /\ buffer' = Append(buffer, Buffered(nextId, event))]_vars

\* C22 witness: an event built from kind alone has been tracked and is the
\* last element of the buffer, with the two fields the factory gave it
C22_Witness ==
  /\ pc[1] = "idle" /\ result[1] = Returned
  /\ buffer # <<>>
  /\ buffer[Len(buffer)].ev = create_event("tool", None).d
  /\ DOMAIN buffer[Len(buffer)].ev = {"kind", "ts"}

\* C23: runtime_info_emitted becomes true only at the success of a flush
\* whose batch held the runtime-info event built from the snapshot that is
\* current at that moment; a flush that succeeds after another caller's
\* set_runtime does not mark the new snapshot as emitted.
C23_EmittedOnlyForSentSnapshot ==
  [][(~runtime_info_emitted /\ runtime_info_emitted') =>
       \E t \in Threads :
         /\ FlushSucceeds(t)
         /\ payload[t].events[1] = runtime_info_event(runtime)]_vars

\* C24: in every step the buffer stays the same, grows by exactly one event
\* appended at its end (a track of a valid event), or becomes empty as the
\* effect of a flush that received a 2xx; no step removes, reorders or
\* replaces single events, and set_runtime, a rejected track and a failed
\* flush leave the buffer unchanged.
C24_BufferGrowsOrClears ==
  [][/\ \/ buffer' = buffer
        \/ /\ Len(buffer') = Len(buffer) + 1
           /\ SubSeq(buffer', 1, Len(buffer)) = buffer
           /\ ops' = ops + 1
           /\ result'[1].type # "SurfaValidationError"
        \/ /\ buffer' = <<>>
           /\ \E t \in Threads :
                FlushSucceeds(t) /\ Is2xx(response[t].status_code)
     /\ \A a \in RuntimeArgs : SetRuntime(1, a) => buffer' = buffer
     /\ (ops' = ops + 1 /\ result'[1].type = "SurfaValidationError")
          => buffer' = buffer
     /\ \A t \in Threads :
          (fres[t] = "running" /\ fres'[t] \notin {"running", "ok"})
            => buffer' = buffer]_vars

\* C24 witness: a flush that received a 2xx has emptied a buffer of two
\* events
C24_Witness ==
  /\ pc[1] = "idle" /\ fres[1] = "ok"
  /\ Len(pre[1].buffer) = 2
  /\ Is2xx(response[1].status_code)
  /\ buffer = <<>>

\* the errors a flush can end with
RaisedTypes == FlushErrors \cup {"TypeError"}

\* C25: a flush started with a non-empty buffer returns normally, clears
\* the buffer, stores an execution id or marks runtime-info emitted only if
\* one of its attempts received a 2xx; every other outcome reaches the
\* caller of flush, and the caller of the track or session_end whose
\* auto-flush it was, as a raised error; only __exit__ swallows it.
C25_SuccessOnlyOn2xx ==
  [][/\ (\/ (buffer' # buffer /\ buffer' = <<>>)
         \/ execution_id' # execution_id
         \/ (runtime_info_emitted' /\ ~runtime_info_emitted))
          => /\ pc[1] \in {"assign", "mark"}
             /\ LastOutcome(1).exc = "none"
             /\ Is2xx(LastOutcome(1).status_code)
     /\ (InFlush(1) /\ pc'[1] \notin {"post", "sleep", "assign", "mark"})
          => IF fres'[1] = "ok"
               THEN /\ outcomes'[1][Len(outcomes'[1])].exc = "none"
                    /\ Is2xx(outcomes'[1][Len(outcomes'[1])].status_code)
                    /\ result'[1] \in {Returned, ReturnedFalse, NoResult}
               ELSE /\ fres'[1] \in RaisedTypes
                    /\ IF ctx[1] \in {"exit_end", "exit_flush"}
                         THEN result'[1] = ReturnedFalse
                         ELSE /\ result'[1].type = fres'[1]
                              /\ pc'[1] = "idle"]_vars

\* C25 witness: the auto-flush of a track was answered 404 and the track
\* call has raised IngestError to its caller
C25_Witness ==
  /\ pc[1] = "idle"
  /\ ops = 1 /\ nextId = 2 /\ endsAppended = 0
  /\ outcomes[1] = <<StatusTag(404)>>
  /\ result[1].type = "SurfaIngestError"
  /\ result[1].status_code = 404
  /\ Len(buffer) = 1

\* C26: all the attempts of one flush carry the same request body, the
\* same event list in the same order, the same execution_id field or none,
\* the same runtime snapshot as the first attempt, also when events are
\* appended or set_runtime is called while the flush retries; no event is
\* twice in one request.
C26_SameBodyOnRetry ==
  [][\A t \in Threads :
       /\ (pc[t] \in {"post", "sleep"} /\ pc'[t] \in {"post", "sleep"})
            => payload'[t] = payload[t]
       /\ pc'[t] = "post" =>
            \A i, j \in 1..Len(payload'[t].events) :
              i # j => payload'[t].events[i].id # payload'[t].events[j].id]_vars

\* C26 witness: a flush is about to make its second attempt with the body
\* of the first, while another caller has appended an event and set a
\* runtime snapshot since the body was built
C26_Witness ==
  /\ pc[1] = "post" /\ attempt[1] = 1
  /\ Len(payload[1].events) = 2
  /\ Len(buffer) = 3
  /\ runtime.set /\ ~payload[1].runtime.set
  /\ "runtime" \notin payload[1].keys

\* b is a session-ended event
IsSessionEnded(b) ==
  /\ b.ev["kind"] = Str("session")
  /\ "subtype" \in DOMAIN b.ev
  /\ b.ev["subtype"] = Str("session_ended")

\* C27: if __exit__ is called while the session is not ended and every
\* transport attempt it triggers receives a 2xx, then after it session_ended
\* is true, the buffer is empty and the last event of the last batch sent is
\* the session-ended event (the batch acknowledged inside its session_end,
\* or else the whole buffer, which its own flush sends); if the session was
\* already ended, __exit__ appends no session-ended event and only flushes.
C27_ExitEndsAndFlushes ==
  [][/\ (Exit(1) /\ session_ended)
          => /\ buffer' = buffer
             /\ endsAppended' = endsAppended
             /\ ctx'[1] = "exit_flush"
     /\ (~session_ended /\ ctx[1] # "exit_flush" /\ ctx'[1] = "exit_flush")
          => IF pc[1] \in {"assign", "mark"}
               THEN /\ IsSessionEnded(
                         payload[1].events[Len(payload[1].events)])
                    /\ session_ended'
               ELSE /\ buffer' # <<>>
                    /\ IsSessionEnded(buffer'[Len(buffer')])
                    /\ session_ended'
     /\ (ctx[1] = "exit_flush" /\ pc[1] = "flush" /\ pc'[1] = "post")
          => payload'[1].events[Len(payload'[1].events)]
               = buffer[Len(buffer)]
     /\ (/\ ctx[1] \in {"exit_end", "exit_flush"}
         /\ pc'[1] = "idle"
         /\ \A i \in 1..Len(outcomes'[1]) :
              /\ outcomes'[1][i].exc = "none"
              /\ Is2xx(outcomes'[1][i].status_code))
          => (session_ended' /\ buffer' = <<>>)]_vars

\* C28: for one caller, whenever a track call returns normally the buffer
\* is shorter than flush_at (and empty if that call auto-flushed); the
\* buffer can be as long as flush_at or longer, with no call running, only
\* after a flush has failed: such a state is entered by the failing step of
\* a flush, and kept by calls that leave the buffer alone.
C28_BufferBelowThreshold ==
  [][/\ (/\ result'[1] = Returned /\ pc'[1] = "idle"
         /\ \/ ctx[1] \in {"track", "session_end"}
            \/ Len(buffer') = Len(buffer) + 1)
          => /\ Len(buffer') < flush_at
             /\ ctx[1] \in {"track", "session_end"} => buffer' = <<>>
     /\ (pc'[1] = "idle" /\ Len(buffer') >= flush_at)
          => \/ pc[1] = "idle" /\ buffer' = buffer
             \/ InFlush(1) /\ fres'[1] \in RaisedTypes]_vars

\* C28 witness: four tracks with flush_at = 2, the fourth has returned
\* after its auto-flush and the buffer is empty
C28_Witness ==
  /\ flush_at = 2 /\ ops = 4 /\ nextId = 5 /\ endsAppended = 0
  /\ pc[1] = "idle" /\ result[1] = Returned /\ fres[1] = "ok"
  /\ buffer = <<>>

\* C29: when the auto-flush of a track fails, the track call raises the
\* error of the flush and the tracked event stays in the buffer as its last
\* element; the buffer may then be longer than flush_at, and every later
\* track of a valid event starts a new flush that sends the whole buffer.
C29_FailedAutoFlushKeepsEvent ==
  [][/\ (ctx[1] = "track" /\ InFlush(1) /\ fres'[1] \in RaisedTypes)
          => /\ pc'[1] = "idle"
             /\ result'[1].type = fres'[1]
             /\ fres'[1] \in FlushErrors => result'[1] = ErrorOf(response'[1])
             /\ buffer' = buffer
             /\ buffer'[Len(buffer')].id = nextId - 1
     /\ (ops' = ops + 1 /\ Len(buffer') = Len(buffer) + 1
           /\ Len(buffer) >= flush_at)
          => pc'[1] = "flush"
     /\ (ctx[1] = "track" /\ pc[1] = "flush" /\ pc'[1] = "post")
          => \/ payload'[1].events = buffer
             \/ Tail(payload'[1].events) = buffer]_vars

\* C29 witness: flush_at = 1, two tracks have raised the error of their
\* auto-flush and the third is sending all three events
C29_Witness ==
  /\ flush_at = 1 /\ ops = 3 /\ nextId = 4 /\ endsAppended = 0
  /\ ctx[1] = "track" /\ pc[1] = "post"
  /\ Len(buffer) = 3
  /\ payload[1].events = buffer

\* C30: a response whose status is outside 2xx, outside 4xx and outside
\* {429, 500, 502, 503, 504} (1xx, 3xx, 501, 505) ends the flush at once
\* with IngestError carrying that status: no wait, no further attempt, the
\* buffer and the session state unchanged.
C30_OtherStatusImmediate ==
  \A t \in Threads :
    (outcomes[t] # <<>> /\ LastOutcome(t).exc = "none"
       /\ ~Is2xx(LastOutcome(t).status_code)
       /\ LastOutcome(t).status_code \notin 400..499
       /\ LastOutcome(t).status_code \notin {429, 500, 502, 503, 504})
      => /\ ~InFlush(t)
         /\ fres[t] = "SurfaIngestError"
         /\ pc[t] = "idle" =>
              /\ result[t].type = "SurfaIngestError"
              /\ result[t].status_code = LastOutcome(t).status_code
         /\ Len(waits[t]) = Len(outcomes[t]) - 1
         /\ Fields = pre[t]

\* C30 witness: a 501 on the second attempt, after a 503 and one wait, has
\* made the flush raise IngestError with status 501
C30_Witness ==
  /\ pc[1] = "idle"
  /\ outcomes[1] = <<StatusTag(503), StatusTag(501)>>
  /\ waits[1] = <<500>>
  /\ result[1] = Error("SurfaIngestError", 501, 0)
  /\ buffer # <<>>

\* the step is the arrival of a 2xx answer to the batch of caller t
Gets2xx(t) ==
  /\ pc[t] = "post"
  /\ Len(outcomes'[t]) = Len(outcomes[t]) + 1
  /\ outcomes'[t][Len(outcomes'[t])].exc = "none"
  /\ Is2xx(outcomes'[t][Len(outcomes'[t])].status_code)

\* C31: for one caller, over any sequence of calls and transport outcomes,
\* no accepted event is in two batches that received a 2xx; an event leaves
\* the buffer only when a batch that held it has received a 2xx; and the
\* batches that receive a 2xx, taken in sequence, hold the events in the
\* order they were tracked (arrival numbers strictly increasing).
C31_DeliveredOnceInOrder ==
  [][/\ Gets2xx(1) =>
          LET ids == EventIds(payload[1].events)
          IN /\ \A i \in 1..Len(ids) : ids[i] \notin acked
             /\ \A i \in 1..(Len(ids) - 1) : ids[i] < ids[i + 1]
             /\ \A i \in 1..Len(ids) : \A a \in acked : a < ids[i]
     /\ \A i \in 1..Len(buffer) :
          buffer[i] \notin Range(buffer') => buffer[i].id \in acked']_vars

\* C32: when the flushes of two callers overlap, no event is in two batches
\* that both receive a 2xx, the two batches in flight do not both hold the
\* runtime-info event of the same runtime assignment, and execution_id,
\* once assigned, is not assigned again.
C32_OverlappingFlushes ==
  [][/\ \A t \in Threads :
          Gets2xx(t) =>
            \A id \in Range(EventIds(payload[t].events)) : id \notin acked
     /\ ~(\A t \in Threads :
            pc'[t] \in {"post", "sleep", "assign", "mark"} /\ carries'[t])
     /\ execution_id # None => execution_id' = execution_id]_vars

\* C33: for one caller, if flush is called again after every flush that
\* raised and the transport eventually answers 2xx, then every event of a
\* batch being posted is eventually in a batch answered 2xx and out of the
\* buffer, the buffer eventually becomes empty, and a runtime snapshot set
\* before such a flush is eventually marked emitted.
C33_EventuallyDelivered ==
  /\ \A id \in 1..MaxOps :
       (pc[1] = "post" /\ id \in Range(EventIds(payload[1].events)))
         ~> (id \in acked /\ id \notin Range(EventIds(buffer)))
  /\ (pc[1] = "post") ~> (buffer = <<>>)
  /\ (pc[1] = "post" /\ runtime.set) ~> runtime_info_emitted

\* C34: the statements after the retry loop of flush are not reached: an
\* iteration that sleeps and continues is never the last one of
\* range(max_retries), so the third iteration returns or raises, and no
\* flush ends in the statements after the loop (raise last_error, or the
\* fallback NetworkError).
C34_AfterLoopUnreachable ==
  \A t \in Threads :
    /\ fres[t] # "after_loop"
    /\ pc[t] = "sleep" => LoopHasNext(attempt[t])
    /\ InFlush(t) => attempt[t] < max_retries
    /\ Len(waits[t]) <= max_retries - 1

\* C34 witness: the third iteration has ended the flush by raising, after
\* two iterations that slept and continued
C34_Witness ==
  /\ pc[1] = "idle"
  /\ attempt[1] = max_retries - 1
  /\ outcomes[1] = <<ExcTag("Timeout"), StatusTag(503), ExcTag("Timeout")>>
  /\ waits[1] = <<500, 1000>>
  /\ fres[1] = "SurfaNetworkError"

====
